---- MODULE Spec2Model ----
(***************************************************************************)
(* slot_map<T, Token, Container> of src/slot_map.hpp, with the default     *)
(* Token = std::pair<unsigned, unsigned> and Container = std::vector.      *)
(*                                                                         *)
(* A container value is a record                                           *)
(*   slots, scap : m_slots and m_slots.capacity()                          *)
(*   data, dcap  : m_data and m_data.capacity()                            *)
(*   helper      : m_erase_helper                                          *)
(*   head, tail  : m_free_head, m_free_tail                                *)
(*   oob         : some element access fell outside a vector's size        *)
(*   af          : the operation reached the assert of pop_head with a    *)
(*                 false condition (a build without NDEBUG aborts there;   *)
(*                 the model follows the build that compiles assert out)   *)
(* Slot indices and dense positions are 0-based as in the source; TLA+     *)
(* sequences are 1-based, hence the "+ 1" on every subscript.              *)
(*                                                                         *)
(* std::vector::reserve(n) is modelled as the mainstream implementations   *)
(* behave: the capacity becomes exactly n when n exceeds it.  The capacity *)
(* of m_erase_helper never influences a result and is not tracked.         *)
(*                                                                         *)
(* size_type is an unsigned integer of size_type_bits bits (32 for the     *)
(* default Token, fewer here): the products of grow and grow_slots are     *)
(* taken modulo 2^size_type_bits.  Only SpecOverflow reaches capacities    *)
(* at which they wrap.                                                     *)
(***************************************************************************)
EXTENDS Integers, Sequences, FiniteSets, TLC

\* ---------------------------------------------------------------- constants
growth_rate == 2
initial_alloc_size == 20

\* ------------------------------------------------------------------- bounds
MaxSize == 3           \* Spec: most elements in the dense store
MaxErases == 2         \* Spec: most successful erases in one run
MaxSlotsCap == 45      \* Spec: largest slot-table capacity explored
MaxGarbage == 1        \* an out-of-bounds read yields a value in 0..MaxGarbage
MaxGrowInserts == 42   \* SpecGrow: number of inserts (crosses 20 and 40)
VaryLen == 5           \* SpecGrow: the first VaryLen values are chosen freely
MaxVariant == 1        \* SpecGrow: a freely chosen value has 1 + MaxVariant candidates
size_type_bits == 8    \* width of size_type (wraps above every capacity of Spec)

\* slot_map never inspects a stored value (T is opaque to it), so runs that
\* store pairwise distinct values subsume the others
Values == 1..MaxSize
Garbage == 0..MaxGarbage

VARIABLES m_slots, slots_capacity, m_data, data_capacity, m_erase_helper,
          m_free_head, m_free_tail,
          oob, assert_failed,
          live, stale, erases, last, freed, c2

vars == <<m_slots, slots_capacity, m_data, data_capacity, m_erase_helper,
          m_free_head, m_free_tail, oob, assert_failed,
          live, stale, erases, last, freed, c2>>

\* ------------------------------------------------------------ token helpers
Slot(i, g) == [idx |-> i, gen |-> g]
key_index(key) == key.idx
key_generation(key) == key.gen

Front(s) == SubSeq(s, 1, Len(s) - 1)
Back(s) == s[Len(s)]

\* the container as one value
Self == [slots |-> m_slots, scap |-> slots_capacity,
         data |-> m_data, dcap |-> data_capacity,
         helper |-> m_erase_helper,
         head |-> m_free_head, tail |-> m_free_tail,
         oob |-> oob, af |-> FALSE]

\* slot_map(): empty vectors, m_free_head(0), m_free_tail(0)
Empty == [slots |-> <<>>, scap |-> 0, data |-> <<>>, dcap |-> 0,
          helper |-> <<>>, head |-> 0, tail |-> 0,
          oob |-> FALSE, af |-> FALSE]

\* --------------------------------------------------------- vector primitives
vector_reserve(cap, n) == IF n > cap THEN n ELSE cap

\* std::numeric_limits<size_type>::max() and the conversion to size_type
size_type_max == 2^size_type_bits - 1
size_type(n) == n % (size_type_max + 1)

\* key_index( *(begin(m_slots) + i) ) = v ; outside the size the store lands
\* in raw storage that is no element of the vector
set_index(c, i, v) ==
  IF i < Len(c.slots) THEN [c EXCEPT !.slots[i + 1].idx = v]
                      ELSE [c EXCEPT !.oob = TRUE]

\* the generation stepped the wrong way (-- for ++)
bump_generation_down(c, i) ==
  IF i < Len(c.slots) THEN [c EXCEPT !.slots[i + 1].gen = @ - 1]
                      ELSE [c EXCEPT !.oob = TRUE]

\* ++key_generation( *(begin(m_slots) + i) )
bump_generation(c, i) ==
  IF i < Len(c.slots) THEN [c EXCEPT !.slots[i + 1].gen = @ + 1]
                      ELSE [c EXCEPT !.oob = TRUE]

\* ------------------------------------------------------------------- growth
\* grow_slots without the reset of m_free_head (line 508 dropped)
grow_slots_keeps_head(c) ==
  LET initial_size == size_type(c.scap)
      capacity == IF initial_size # 0
                    THEN vector_reserve(c.scap,
                                        size_type(initial_size * growth_rate))
                    ELSE vector_reserve(c.scap, initial_alloc_size)
      emplaced == c.slots \o [j \in 1..(size_type(capacity) - initial_size) |->
                                 Slot(size_type(initial_size + j), 0)]
      n == Len(emplaced)
      linked == IF n = 0 THEN emplaced
                         ELSE [emplaced EXCEPT ![n].idx = size_type(n - 1)]
  IN [c EXCEPT !.slots = linked, !.scap = capacity,
               !.tail = size_type(n - 1), !.oob = @ \/ n = 0]

\* m_slots.back() of an empty table (n = 0) is no element of the vector: the
\* store is lost and what m_free_tail then reads is settled by read_back
grow_slots(c) ==
  LET initial_size == size_type(c.scap)
      capacity == IF initial_size # 0
                    THEN vector_reserve(c.scap,
                                        size_type(initial_size * growth_rate))
                    ELSE vector_reserve(c.scap, initial_alloc_size)
      emplaced == c.slots \o [j \in 1..(size_type(capacity) - initial_size) |->
                                 Slot(size_type(initial_size + j), 0)]
      n == Len(emplaced)
      linked == IF n = 0 THEN emplaced
                         ELSE [emplaced EXCEPT ![n].idx = size_type(n - 1)]
  IN [c EXCEPT !.slots = linked, !.scap = capacity,
               !.head = initial_size, !.tail = size_type(n - 1),
               !.oob = @ \/ n = 0]

\* the capacity grow asks m_data for; capacity is capacity()
new_capacity(capacity) ==
  LET doubled == IF capacity = 0 THEN initial_alloc_size
                                 ELSE size_type(capacity * growth_rate)
  IN IF doubled < capacity THEN size_type_max ELSE doubled

grow(c) ==
  LET g == grow_slots(c)
  IN [g EXCEPT !.dcap = vector_reserve(c.dcap, new_capacity(size_type(c.dcap)))]

pre_insert(c) == IF Len(c.data) = c.dcap THEN grow(c) ELSE c

\* ---------------------------------------------------------------- free list
\* returns [c, result]; garbage is what a read outside m_slots yields
pop_head(c, garbage) ==
  LET g == IF Len(c.data) = c.dcap THEN grow(c) ELSE c
      inb == g.head < Len(g.slots)
      next_free_head == IF inb THEN g.slots[g.head + 1].idx ELSE garbage
      g1 == [g EXCEPT !.oob = @ \/ ~inb]
  IN IF next_free_head = g.head
       THEN [c |-> [g1 EXCEPT !.af = @ \/ (Len(g.data) # g.dcap)],
             result |-> g.head]
       ELSE [c |-> [g1 EXCEPT !.head = next_free_head],
             result |-> g.head]

push_tail(c, tail_index) ==
  LET a == set_index(c, c.tail, tail_index)
      b == set_index(a, tail_index, tail_index)
      d == [b EXCEPT !.tail = tail_index]
  IN bump_generation(d, tail_index)

\* ------------------------------------------------------------------- insert
\* returns [c, key]
finish_inserting_last_element(c, garbage) ==
  LET p == pop_head(c, garbage)
      slot_index == p.result
      s == p.c
      generation == IF slot_index < Len(s.slots)
                      THEN s.slots[slot_index + 1].gen ELSE garbage
      s1 == set_index(s, slot_index, Len(s.data) - 1)
  IN [c |-> [s1 EXCEPT !.helper = Append(@, slot_index)],
      key |-> Slot(slot_index, generation)]

insert(c, value, garbage) ==
  LET a == pre_insert(c)
      b == [a EXCEPT !.data = Append(@, value)]
  IN finish_inserting_last_element(b, garbage)

\* -------------------------------------------------------------------- erase
\* erase that drops the last element without moving it to pos
erase_without_move(c, pos) ==
  IF pos > Len(c.data) THEN [c EXCEPT !.oob = TRUE]
  ELSE IF pos = Len(c.data) THEN c
  ELSE LET a == [c EXCEPT !.data = Front(@)]
           b == push_tail(a, c.helper[pos + 1])
       IN [b EXCEPT !.helper = Front(@)]

\* erase(iterator pos), pos given as its distance from begin()
erase(c, pos) ==
  IF pos > Len(c.data) THEN [c EXCEPT !.oob = TRUE]
  ELSE IF pos = Len(c.data) THEN c
  ELSE IF pos = Len(c.data) - 1 THEN
    LET a == [c EXCEPT !.data = Front(@)]
        b == push_tail(a, Back(a.helper))
    IN [b EXCEPT !.helper = Front(@)]
  ELSE
    LET dist == pos
        slot_index == c.helper[dist + 1]
        a == push_tail(c, slot_index)
        b == [a EXCEPT !.data = Front([a.data EXCEPT ![pos + 1] = Back(a.data)])]
        update_slot == Back(b.helper)
        d == [b EXCEPT !.helper =
                 Front([b.helper EXCEPT ![dist + 1] = update_slot])]
    IN set_index(d, update_slot, dist)

\* key_valid reads the slot without a bounds test
key_valid(c, key, garbage) ==
  key_generation(key) =
    (IF key_index(key) < Len(c.slots)
       THEN key_generation(c.slots[key_index(key) + 1]) ELSE garbage)

element_index(c, key, garbage) ==
  IF key_index(key) < Len(c.slots)
    THEN key_index(c.slots[key_index(key) + 1]) ELSE garbage

\* while(size()) erase(begin()): every element erased one by one
RECURSIVE erase_every_element(_)
erase_every_element(c) ==
  IF Len(c.data) = 0 THEN c ELSE erase_every_element(erase(c, 0))

\* erase(const key_type&): returns [c, ret]
erase_key(c, key, garbage) ==
  LET c1 == [c EXCEPT !.oob = @ \/ ~(key_index(key) < Len(c.slots))]
  IN IF key_valid(c, key, garbage)
       THEN [c |-> erase(c1, element_index(c, key, garbage)), ret |-> 1]
       ELSE [c |-> c1, ret |-> 0]

\* --------------------------------------------------------- clear / reserve
\* clear that empties the dense store and keeps the slot table
clear_keeps_slots(c) ==
  [c EXCEPT !.data = <<>>, !.helper = <<>>]

clear(c) ==
  grow_slots([c EXCEPT !.data = <<>>, !.slots = <<>>, !.helper = <<>>])

reserve(c, n) ==
  IF n > c.dcap
    THEN grow_slots([c EXCEPT !.dcap = vector_reserve(@, n),
                              !.scap = vector_reserve(@, n)])
    ELSE c

reserve_slots(c, n) ==
  IF n > c.scap
    THEN grow_slots([c EXCEPT !.scap = vector_reserve(@, n)])
    ELSE c

\* ------------------------------------------------------------------ lookup
\* find_unchecked: *(begin(m_data) + element_index(key)); the caller has
\* established that key_index(key) < m_slots.size()
find_unchecked(c, key) ==
  LET p == key_index(c.slots[key_index(key) + 1])
  IN IF p < Len(c.data) THEN [status |-> "value", val |-> c.data[p + 1]]
                        ELSE [status |-> "oob", val |-> 0]

\* at() that forgets the generation comparison
at_without_generation_test(c, key) ==
  IF key_index(key) >= Len(c.slots)
    THEN [status |-> "throw", val |-> 0]
    ELSE find_unchecked(c, key)

at(c, key) ==
  IF key_index(key) >= Len(c.slots)
     \/ key_generation(key) # key_generation(c.slots[key_index(key) + 1])
    THEN [status |-> "throw", val |-> 0]
    ELSE find_unchecked(c, key)

\* ------------------------------------------------------- bookkeeping state
\* live  : [key, val] for every key insert returned whose slot has not been
\*         released since (clear drops them all)
\* stale : keys whose element a successful erase removed
\* erases: number of elements removed by erase so far
\* last  : the operation that produced the state (val is the value given to
\*         insert, or the position given to erase(pos))
\* freed : the slots erase released and insert has not handed out since,
\*         oldest release first (clear drops them all)
\* c2    : <<>>, or <<c>> with c the container copy-constructed from this one
Commit(c) ==
  \E k \in {c} :
    /\ m_slots' = k.slots
    /\ slots_capacity' = k.scap
    /\ m_data' = k.data
    /\ data_capacity' = k.dcap
    /\ m_erase_helper' = k.helper
    /\ m_free_head' = k.head
    /\ m_free_tail' = k.tail
    /\ oob' = k.oob
    /\ assert_failed' = k.af

NoKey == Slot(0, 0)
LiveKeys == {h.key : h \in live}
Occupied == {key_index(k) : k \in LiveKeys}

InSeq(q) == {q[n] : n \in 1..Len(q)}
Without(q, i) == SelectSeq(q, LAMBDA x : x # i)

\* the slots erase(begin() + pos) releases
Released(c, pos) == IF pos < Len(c.data) THEN {c.helper[pos + 1]} ELSE {}

Forget(rel) ==
  /\ live' = {h \in live : key_index(h.key) \notin rel}
  /\ stale' = stale \cup {h.key : h \in {x \in live : key_index(x.key) \in rel}}
  /\ erases' = erases + Cardinality(rel)
  /\ freed' = IF rel \subseteq InSeq(freed) THEN freed
              ELSE Append(freed, CHOOSE i \in rel : TRUE)

Init ==
  /\ m_slots = Empty.slots
  /\ slots_capacity = Empty.scap
  /\ m_data = Empty.data
  /\ data_capacity = Empty.dcap
  /\ m_erase_helper = Empty.helper
  /\ m_free_head = Empty.head
  /\ m_free_tail = Empty.tail
  /\ oob = FALSE
  /\ assert_failed = FALSE
  /\ live = {}
  /\ stale = {}
  /\ erases = 0
  /\ freed = <<>>
  /\ c2 = <<>>
  /\ last = [op |-> "init", key |-> NoKey, val |-> 0, ret |-> 0]

\* ----------------------------------------------------------------- actions
\* (a result is bound with \E x \in {e} so that it is computed once)
\* No operation is explored from a state in which an access already fell
\* outside a vector: nothing is known about the program after that.
Insert(v, gb) ==
  /\ ~oob
  /\ Len(m_data) < MaxSize
  /\ \E r \in {insert(Self, v, gb)} :
       /\ r.c.scap <= MaxSlotsCap
       /\ Commit(r.c)
       /\ live' = live \cup {[key |-> r.key, val |-> v]}
       /\ freed' = Without(freed, key_index(r.key))
       /\ last' = [op |-> "insert", key |-> r.key, val |-> v, ret |-> 0]
  /\ UNCHANGED <<stale, erases, c2>>

Erase(pos) ==
  /\ ~oob
  /\ pos < Len(m_data) => erases < MaxErases
  /\ Commit(erase(Self, pos))
  /\ Forget(Released(Self, pos))
  /\ last' = [op |-> "erase", key |-> NoKey, val |-> pos, ret |-> 0]
  /\ UNCHANGED c2

KeyInputs ==
  LiveKeys \cup stale
    \cup {Slot(1, 0), Slot(Len(m_slots), 0)}

EraseKey(key, gb) ==
  /\ ~oob
  /\ \E r \in {erase_key(Self, key, gb)},
        rel \in {IF key_valid(Self, key, gb)
                   THEN Released(Self, element_index(Self, key, gb)) ELSE {}} :
        /\ rel # {} => erases < MaxErases
        /\ Commit(r.c)
        /\ Forget(rel)
        /\ last' = [op |-> "erase_key", key |-> key, val |-> 0, ret |-> r.ret]
  /\ UNCHANGED c2

Clear ==
  /\ ~oob
  /\ \E c \in {clear(Self)} :
       /\ c.scap <= MaxSlotsCap
       /\ Commit(c)
  /\ live' = {}
  /\ freed' = <<>>
  /\ UNCHANGED <<stale, erases, c2>>
  /\ last' = [op |-> "clear", key |-> NoKey, val |-> 0, ret |-> 0]

ReserveArgs == {1, initial_alloc_size + 1}

Reserve(n) ==
  /\ ~oob
  /\ \E c \in {reserve(Self, n)} :
       /\ c.scap <= MaxSlotsCap
       /\ Commit(c)
  /\ UNCHANGED <<live, stale, erases, freed, c2>>
  /\ last' = [op |-> "reserve", key |-> NoKey, val |-> 0, ret |-> 0]

\* reserve_slots is tried with the argument that gives the slot table a
\* capacity different from the dense store's
ReserveSlotsArgs == {1}

ReserveSlots(n) ==
  /\ ~oob
  /\ \E c \in {reserve_slots(Self, n)} :
       /\ c.scap <= MaxSlotsCap
       /\ Commit(c)
  /\ UNCHANGED <<live, stale, erases, freed, c2>>
  /\ last' = [op |-> "reserve_slots", key |-> NoKey, val |-> 0, ret |-> 0]

\* the value to insert: the least one that is not in the dense store
FreshValues ==
  {v \in Values : /\ \A p \in 1..Len(m_data) : m_data[p] # v
                  /\ \A w \in 1..(v - 1) : \E p \in 1..Len(m_data) : m_data[p] = w}

\* what an out-of-bounds read may yield, where the operation makes one
InsertGarbage(v) == IF insert(Self, v, 0).c.oob THEN Garbage ELSE {0}
EraseGarbage(key) == IF key_index(key) < Len(m_slots) THEN {0} ELSE Garbage

Next ==
  \/ \E v \in FreshValues : \E gb \in InsertGarbage(v) : Insert(v, gb)
  \/ \E pos \in 0..Len(m_data) : Erase(pos)
  \/ \E key \in KeyInputs : \E gb \in EraseGarbage(key) : EraseKey(key, gb)
  \/ Clear
  \/ \E n \in ReserveArgs : Reserve(n)
  \/ \E n \in ReserveSlotsArgs : ReserveSlots(n)

Spec == Init /\ [][Next]_vars

\* ------------------------------------------- insert-only runs (growth path)
\* the n-th insert stores one of the values n*(MaxVariant+1) + 0..MaxVariant:
\* all stored values differ
GrowValues ==
  {Len(m_data) * (MaxVariant + 1) + b :
     b \in (IF Len(m_data) < VaryLen THEN 0..MaxVariant ELSE {0})}

GrowInsert(v) ==
  /\ ~oob
  /\ Len(m_data) < MaxGrowInserts
  /\ \E r \in {insert(Self, v, 0)} :
       /\ Commit(r.c)
       /\ live' = live \cup {[key |-> r.key, val |-> v]}
       /\ freed' = Without(freed, key_index(r.key))
       /\ last' = [op |-> "insert", key |-> r.key, val |-> v, ret |-> 0]
  /\ UNCHANGED <<stale, erases, c2>>

NextGrow == \E v \in GrowValues : GrowInsert(v)

SpecGrow == Init /\ [][NextGrow]_vars

\* --------------------------- longer runs of insert / erase after a reserve
DeepSize == 4          \* SpecDeep: most elements in the dense store
DeepErases == 3        \* SpecDeep: most successful erases in one run

DeepFresh ==
  {v \in 1..DeepSize :
     /\ \A p \in 1..Len(m_data) : m_data[p] # v
     /\ \A w \in 1..(v - 1) : \E p \in 1..Len(m_data) : m_data[p] = w}

DeepInsert(v, gb) ==
  /\ ~oob
  /\ Len(m_data) < DeepSize
  /\ \E r \in {insert(Self, v, gb)} :
       /\ r.c.scap <= MaxSlotsCap
       /\ Commit(r.c)
       /\ live' = live \cup {[key |-> r.key, val |-> v]}
       /\ freed' = Without(freed, key_index(r.key))
       /\ last' = [op |-> "insert", key |-> r.key, val |-> v, ret |-> 0]
  /\ UNCHANGED <<stale, erases, c2>>

DeepErase(pos) ==
  /\ ~oob
  /\ erases < DeepErases
  /\ Commit(erase(Self, pos))
  /\ Forget(Released(Self, pos))
  /\ last' = [op |-> "erase", key |-> NoKey, val |-> pos, ret |-> 0]
  /\ UNCHANGED c2

DeepEraseKey(key) ==
  /\ ~oob
  /\ \E r \in {erase_key(Self, key, 0)},
        rel \in {Released(Self, element_index(Self, key, 0))} :
        /\ rel # {} => erases < DeepErases
        /\ Commit(r.c)
        /\ Forget(rel)
        /\ last' = [op |-> "erase_key", key |-> key, val |-> 0, ret |-> r.ret]
  /\ UNCHANGED c2

NextDeep ==
  \/ \E n \in ReserveArgs : Reserve(n)
  \/ \E v \in DeepFresh : \E gb \in InsertGarbage(v) : DeepInsert(v, gb)
  \/ \E pos \in 0..(Len(m_data) - 1) : DeepErase(pos)
  \/ \E key \in LiveKeys : DeepEraseKey(key)

SpecDeep == Init /\ [][NextDeep]_vars

\* ------------------------------------------------------- copy construction
\* slot_map(const slot_map&) = default: every member is copy-constructed.
\* A copied std::vector has the elements of the original and a capacity of
\* its own, which the mainstream implementations make equal to the size.
\* copy construction that would rebuild the table with new generations
copy_construct_new_generations(c) ==
  [c EXCEPT !.slots = [n \in 1..Len(c.slots) |->
                         Slot(key_index(c.slots[n]),
                              key_generation(c.slots[n]) + 1)],
            !.scap = Len(c.slots), !.dcap = Len(c.data), !.af = FALSE]

copy_construct(c) ==
  [c EXCEPT !.scap = Len(c.slots), !.dcap = Len(c.data), !.af = FALSE]

CopyConstruct ==
  /\ ~oob
  /\ c2 = <<>>
  /\ c2' = <<copy_construct(Self)>>
  /\ last' = [op |-> "copy", key |-> NoKey, val |-> 0, ret |-> 0]
  /\ UNCHANGED <<m_slots, slots_capacity, m_data, data_capacity,
                 m_erase_helper, m_free_head, m_free_tail, oob,
                 assert_failed, live, stale, erases, freed>>

\* the original is used until it is copied
NextCopy ==
  \/ c2 = <<>> /\ \E v \in FreshValues : \E gb \in InsertGarbage(v) : Insert(v, gb)
  \/ c2 = <<>> /\ \E pos \in 0..Len(m_data) : Erase(pos)
  \/ c2 = <<>> /\ \E key \in KeyInputs : \E gb \in EraseGarbage(key) : EraseKey(key, gb)
  \/ c2 = <<>> /\ \E n \in ReserveArgs : Reserve(n)
  \/ CopyConstruct

SpecCopy == Init /\ [][NextCopy]_vars

\* Programs that insert, erase by position, clear and reserve only.
NextErase ==
  \/ \E v \in FreshValues : \E gb \in InsertGarbage(v) : Insert(v, gb)
  \/ \E pos \in 0..Len(m_data) : Erase(pos)
  \/ Clear
  \/ \E n \in ReserveArgs : Reserve(n)

SpecErase == Init /\ [][NextErase]_vars

\* Programs that reserve capacities whose double exceeds size_type.
\* what m_free_tail reads through back() of an empty slot table
read_back(c, garbage) ==
  IF Len(c.slots) = 0 THEN [c EXCEPT !.tail = garbage] ELSE c

\* the least capacity whose product with growth_rate wraps, and the largest
OverflowArgs == {(size_type_max + 1) \div growth_rate, size_type_max}
ReadBackGarbage == IF Len(m_slots) = 0 THEN Garbage ELSE {0}

ReserveOverflow(n, gb) ==
  /\ ~oob
  /\ \E c \in {read_back(reserve(Self, n), gb)} : Commit(c)
  /\ UNCHANGED <<live, stale, erases, freed, c2>>
  /\ last' = [op |-> "reserve", key |-> NoKey, val |-> n, ret |-> 0]

ReserveSlotsOverflow(n, gb) ==
  /\ ~oob
  /\ \E c \in {read_back(reserve_slots(Self, n), gb)} : Commit(c)
  /\ UNCHANGED <<live, stale, erases, freed, c2>>
  /\ last' = [op |-> "reserve_slots", key |-> NoKey, val |-> n, ret |-> 0]

NextOverflow ==
  \/ \E v \in FreshValues : \E gb \in InsertGarbage(v) : Insert(v, gb)
  \/ \E pos \in 0..Len(m_data) : Erase(pos)
  \/ \E n \in OverflowArgs : \E gb \in ReadBackGarbage : ReserveOverflow(n, gb)
  \/ \E n \in OverflowArgs : \E gb \in ReadBackGarbage :
       ReserveSlotsOverflow(n, gb)

SpecOverflow == Init /\ [][NextOverflow]_vars

\* ================================================================== claims
payload(i) == key_index(m_slots[i + 1])
Found(v) == [status |-> "value", val |-> v]
NotFound == [status |-> "throw", val |-> 0]

\* C1 (bijection): the slots handed out by insert and not released since lie
\* in the slot table, have pairwise distinct payloads, and their payloads
\* are exactly the dense positions 0 .. size()-1.
C1_Bijection ==
  /\ \A i \in Occupied : i < Len(m_slots)
  /\ \A i, j \in Occupied : i # j => payload(i) # payload(j)
  /\ {payload(i) : i \in Occupied} = 0..(Len(m_data) - 1)

\* C2 (stale rejection): a key whose element erase removed is rejected by
\* at() in every later state.
C2_StaleRejection == \A k \in stale : at(Self, k) = NotFound

\* C3 (insert stability): an insert leaves the result of at() unchanged for
\* every key that was live before the call, and each of them still resolves.
C3_InsertStability ==
  [][last'.op = "insert" =>
       \A k \in LiveKeys : /\ at(Self, k)' = at(Self, k)
                           /\ at(Self, k)'.status = "value"]_vars

\* C4 (erase stability): an erase that removes an element leaves the result
\* of at() unchanged for every key that is still live afterwards.
C4_EraseStability ==
  [][(last'.op \in {"erase", "erase_key"} /\ Len(m_data') = Len(m_data) - 1) =>
       \A k \in LiveKeys' : at(Self, k)' = at(Self, k)]_vars

\* C5 (handle validity): at(key) yields anything but not-found only for a
\* key whose index is inside the slot table, whose slot is occupied and
\* whose generation is the slot's; it never reads outside the dense store.
MaxKeyGen == 2
AllKeys == {Slot(i, g) : i \in 0..Len(m_slots), g \in 0..MaxKeyGen}

C5_HandleValidity ==
  \A key \in AllKeys :
    at(Self, key) # NotFound =>
      /\ at(Self, key).status = "value"
      /\ key_index(key) < Len(m_slots)
      /\ key_index(key) \in Occupied
      /\ key_generation(key) = key_generation(m_slots[key_index(key) + 1])

\* C6 (round trip): insert(v) finishes without an access outside a vector
\* and at() of the returned key yields v.
C6_RoundTrip ==
  last.op = "insert" => (~oob /\ at(Self, last.key) = Found(last.val))

\* C7 (free list): the walk from m_free_head along the payload links stays
\* inside the slot table, visits every slot that is not occupied exactly
\* once and no occupied slot, and ends at m_free_tail.
FreeSlots == {i \in 0..(Len(m_slots) - 1) : i \notin Occupied}

RECURSIVE Walk(_, _)
Walk(i, seen) ==
  IF i >= Len(m_slots) \/ (\E n \in 1..Len(seen) : seen[n] = i)
       \/ payload(i) = i
    THEN Append(seen, i)
    ELSE Walk(payload(i), Append(seen, i))

C7_FreeList ==
  FreeSlots # {} =>
    LET w == Walk(m_free_head, <<>>) IN
      /\ \A n \in 1..Len(w) : w[n] < Len(m_slots)
      /\ \A n, m \in 1..Len(w) : n # m => w[n] # w[m]
      /\ {w[n] : n \in 1..Len(w)} = FreeSlots
      /\ w[Len(w)] = m_free_tail

\* C8 (reverse consistency): for every dense position p, m_erase_helper[p]
\* is an index of the slot table and that slot's payload is p.
C8_ReverseConsistency ==
  \A p \in 0..(Len(m_data) - 1) :
    /\ p < Len(m_erase_helper)
    /\ m_erase_helper[p + 1] < Len(m_slots)
    /\ payload(m_erase_helper[p + 1]) = p

C10_EraseOutOfRange ==
  [][(last'.op = "erase_key" /\ key_index(last'.key) >= Len(m_slots)) =>
       /\ last'.ret = 0
       /\ ~oob'
       /\ UNCHANGED <<m_slots, slots_capacity, m_data, data_capacity,
                      m_erase_helper, m_free_head, m_free_tail>>]_vars

\* C11 (erase by key matches liveness): erase(key) of a live key returns 1,
\* lowers size() by one and makes at() reject the key; erase(key) of a key
\* inside the slot table whose generation is not the slot's returns 0 and
\* changes nothing in the container.
C11_EraseKeyLiveness ==
  [][last'.op = "erase_key" =>
       /\ last'.key \in LiveKeys =>
            /\ last'.ret = 1
            /\ Len(m_data') = Len(m_data) - 1
            /\ at(Self', last'.key) = NotFound
       /\ (/\ key_index(last'.key) < Len(m_slots)
           /\ key_generation(last'.key) #
                key_generation(m_slots[key_index(last'.key) + 1])) =>
            /\ last'.ret = 0
            /\ UNCHANGED <<m_slots, slots_capacity, m_data, data_capacity,
                           m_erase_helper, m_free_head, m_free_tail>>]_vars

\* C12 (at rejects): at(key) throws for every key whose index is not inside
\* the slot table and for every key inside it whose generation is not the
\* slot's; the index is compared with the table size before the slot is
\* read (reading m_slots outside its domain would stop the evaluation).
\* The keys tried are those of every slot an operation has touched (handed
\* out, released, head, tail), of the first and last slot and of the first
\* index beyond the table, each with the generations 0..MaxKeyGen.
ProbeIndices ==
  (Occupied \cup {key_index(k) : k \in stale}
     \cup {m_free_head, m_free_tail, 0, Len(m_slots) - 1, Len(m_slots)})
    \cap 0..Len(m_slots)
ProbeKeys == {Slot(i, g) : i \in ProbeIndices, g \in 0..MaxKeyGen}

C12_AtRejects ==
  \A key \in ProbeKeys :
    (\/ key_index(key) >= Len(m_slots)
     \/ key_generation(key) # key_generation(m_slots[key_index(key) + 1]))
      => at(Self, key) = NotFound

\* an erased key that is inside the table with an older generation is
\* rejected, a key beyond the table is rejected, and a live key is not
C12_Witness ==
  /\ \E k \in stale :
       /\ key_index(k) < Len(m_slots)
       /\ key_generation(k) < key_generation(m_slots[key_index(k) + 1])
       /\ at(Self, k) = NotFound
  /\ at(Self, Slot(Len(m_slots), 0)) = NotFound
  /\ \E h \in live : at(Self, h.key) = Found(h.val)

\* C13 (size): after every operation that made no access outside a vector
\* the dense store and m_erase_helper have size() entries each; insert
\* raises that number by one, an erase that reports success (erase(pos) with
\* pos before end(), erase(key) returning 1) lowers it by one, erase(end())
\* and erase(key) returning 0 keep it.
C13_Size ==
  [][~oob' =>
       /\ Len(m_data') = Len(m_erase_helper')
       /\ last'.op = "insert" => Len(m_data') = Len(m_data) + 1
       /\ last'.op = "erase" => Len(m_data') = Len(m_data) - (erases' - erases)
       /\ last'.op = "erase_key" => Len(m_data') = Len(m_data) - last'.ret
    ]_vars

\* C14 (generation monotonicity): no operation (insert, erase, clear,
\* reserve, reserve_slots, growth) lowers the generation stored for a slot
\* index that is in the table before and after it.
generation(i) == key_generation(m_slots[i + 1])
GenerationsKept ==
  \/ m_slots' = m_slots
  \/ \A i \in 0..(Len(m_slots) - 1) :
       i < Len(m_slots') => generation(i)' >= generation(i)

C14_GenerationMonotone == [][GenerationsKept]_vars

\* C14 amended: every operation but clear() keeps or raises the generation
\* of every slot; clear() rebuilds the slot table with every generation 0.
C14_GenerationMonotoneButClear ==
  [][/\ last'.op # "clear" => GenerationsKept
     /\ last'.op = "clear" =>
          \A i \in 0..(Len(m_slots') - 1) : generation(i)' = 0]_vars

\* a reserve has grown a table in which a slot has been released twice
C14_Witness ==
  /\ last.op \in {"reserve", "reserve_slots"}
  /\ Len(m_slots) > initial_alloc_size
  /\ \E i \in 0..(Len(m_slots) - 1) : generation(i) = 2

\* C15 (FIFO reuse): when insert hands out a slot that erase released, that
\* slot is the one released earliest among the released slots not handed
\* out since: no later-released slot overtakes it, growth or not.
C15_FifoReuse ==
  [][(last'.op = "insert" /\ key_index(last'.key) \in InSeq(freed)) =>
       freed[1] = key_index(last'.key)]_vars

\* C16 (clear post-state): after clear() the dense store and m_erase_helper
\* are empty, no slot is occupied, m_free_head and m_free_tail are indices
\* of the slot table, and the walk from m_free_head visits every slot of
\* the table exactly once.
C16_ClearPostState ==
  last.op = "clear" =>
    /\ Len(m_data) = 0
    /\ Len(m_erase_helper) = 0
    /\ Occupied = {}
    /\ m_free_head < Len(m_slots)
    /\ m_free_tail < Len(m_slots)
    /\ LET w == Walk(m_free_head, <<>>) IN
         /\ \A n, m \in 1..Len(w) : n # m => w[n] # w[m]
         /\ {w[n] : n \in 1..Len(w)} = 0..(Len(m_slots) - 1)

\* C17 (reserve is safe): after reserve(n) or reserve_slots(n) every key
\* that was live resolves as before, every index on the walk from
\* m_free_head is inside the slot table, and every slot the call created
\* except the last links to the slot physically following it.
C17_ReserveSafe ==
  [][last'.op \in {"reserve", "reserve_slots"} =>
       /\ \A k \in LiveKeys : at(Self, k)' = at(Self, k)
       /\ LET w == Walk(m_free_head, <<>>)' IN
            \A n \in 1..Len(w) : w[n] < Len(m_slots')
       /\ \A i \in Len(m_slots)..(Len(m_slots') - 2) : payload(i)' = i + 1
    ]_vars

OldFreeList ==
  IF m_free_head < Len(m_slots) /\ m_free_head \notin Occupied
    THEN SelectSeq(Walk(m_free_head, <<>>), LAMBDA i : i < Len(m_slots))
    ELSE <<>>

C19_GrowthSplices ==
  [][(/\ Len(m_slots') > Len(m_slots)
      /\ last'.op # "clear"
      /\ OldFreeList # <<>>) =>
       /\ \A n \in 1..(Len(OldFreeList) - 1) :
            payload(OldFreeList[n])' = payload(OldFreeList[n])
       /\ payload(OldFreeList[Len(OldFreeList)])' = Len(m_slots)
       /\ last'.op \in {"reserve", "reserve_slots"} =>
            m_free_head' = m_free_head
       /\ last'.op = "insert" => key_index(last'.key) = m_free_head
    ]_vars

\* C20 (assertion of pop_head): whenever pop_head takes the branch of the
\* head slot that links to itself, m_data.size() == m_data.capacity(), i.e.
\* no operation reaches the assert with a false condition.
C20_PopHeadAssertion == ~assert_failed

\* C21 (generation step): an erase that removes an element raises the
\* generation of the released slot (the new free-list tail; the slot of the
\* key for erase(key) of a live key) by one and keeps every other
\* generation; insert and an erase that removes nothing keep every
\* generation; the key insert returns names a slot of the table and carries
\* that slot's generation.
GenerationStep(released) ==
  \A i \in 0..(Len(m_slots) - 1) :
    generation(i)' = generation(i) + (IF i \in released THEN 1 ELSE 0)

GenerationStepOfOperation ==
     /\ (/\ last'.op \in {"erase", "erase_key"}
         /\ Len(m_data') = Len(m_data) - 1) =>
          /\ m_free_tail' < Len(m_slots)
          /\ GenerationStep({m_free_tail'})
          /\ (last'.op = "erase_key" /\ last'.key \in LiveKeys) =>
               key_index(last'.key) = m_free_tail'
     /\ (/\ last'.op \in {"erase", "erase_key"}
         /\ Len(m_data') = Len(m_data)) => GenerationStep({})
     /\ last'.op = "insert" =>
          /\ GenerationStep({})
          /\ key_index(last'.key) < Len(m_slots')
          /\ key_generation(last'.key) =
               key_generation(m_slots'[key_index(last'.key) + 1])

C21_GenerationStep == [][GenerationStepOfOperation]_vars

\* C22 (single move on erase): erase of dense position p < size() drops the
\* last position of the dense store and of m_erase_helper; when p is not
\* the last position, position p of each takes the entry that was last;
\* every other position keeps its entry; each value is stored as often as
\* before, the erased value once less.
Count(q, v) == Cardinality({n \in 1..Len(q) : q[n] = v})

C22_SingleMove ==
  [][(last'.op = "erase" /\ last'.val < Len(m_data)) =>
       LET p == last'.val
           n == Len(m_data)
       IN /\ Len(m_data') = n - 1
          /\ Len(m_erase_helper') = n - 1
          /\ \A q \in 0..(n - 2) :
               q # p => /\ m_data'[q + 1] = m_data[q + 1]
                        /\ m_erase_helper'[q + 1] = m_erase_helper[q + 1]
          /\ p < n - 1 => /\ m_data'[p + 1] = m_data[n]
                          /\ m_erase_helper'[p + 1] = m_erase_helper[n]
          /\ \A v \in Values :
               Count(m_data', v) =
                 Count(m_data, v) - (IF v = m_data[p + 1] THEN 1 ELSE 0)
    ]_vars

\* an erase has removed an element that was not the last one: its position
\* is still inside the dense store
C22_Witness ==
  /\ last.op = "erase"
  /\ last.val < Len(m_data)
  /\ Len(m_data) = MaxSize - 1

\* C24 (clear() generation policy): right after clear() every slot of the
\* slot table has generation 0, whatever the generations were; erasing the
\* elements one by one instead would have left a slot with a generation
\* above 0, so the two are not equivalent.
C24_ClearResetsGenerations ==
  [][last'.op = "clear" =>
       /\ \A i \in 0..(Len(m_slots') - 1) : generation(i)' = 0
       /\ Len(m_data) > 0 =>
            \E s \in {erase_every_element(Self).slots} :
              \E i \in 1..Len(s) : key_generation(s[i]) > 0
    ]_vars

\* clear() has run on a table with a raised generation: the key of an element
\* erased earlier has the generation of its slot again
C24_Witness ==
  /\ last.op = "clear"
  /\ \E k \in stale :
       /\ key_index(k) < Len(m_slots)
       /\ key_generation(k) = generation(key_index(k))

\* C23 (overflow clamp): grow asks the dense store for size_type_max whenever
\* twice its capacity exceeds size_type_max; a reserve or reserve_slots whose
\* grow_slots doubles a slot capacity with such a product leaves the slot
\* table with capacity size_type_max and every slot it had unmodified.
Overflows(capacity) == capacity * growth_rate > size_type_max

SlotGrowthOverflows ==
  \/ /\ last'.op = "reserve_slots"
     /\ last'.val > slots_capacity
     /\ Overflows(last'.val)
  \/ /\ last'.op = "reserve"
     /\ last'.val > data_capacity
     /\ Overflows(vector_reserve(slots_capacity, last'.val))

C23_OverflowClamp ==
  [][/\ \A capacity \in 0..size_type_max :
          Overflows(capacity) => new_capacity(capacity) = size_type_max
     /\ SlotGrowthOverflows =>
          /\ slots_capacity' = size_type_max
          /\ \A i \in 1..Len(m_slots) :
               Len(m_slots') >= i /\ m_slots'[i] = m_slots[i]
    ]_vars

====
